---- MODULE Spec2Model ----
(***************************************************************************)
(* A model of CFixedString (src/src/lib.rs): a C string that lives in a   *)
(* fixed inline array while it is short and in a heap CString once it is  *)
(* long.  Bytes are numbers 0..255, a str / String is a sequence of       *)
(* bytes, the inline array is a function on 0..STRING_SIZE-1, a CString   *)
(* is an owned heap block: its address and its bytes, terminator included.*)
(***************************************************************************)
EXTENDS Integers, Sequences, FiniteSets

\* ------------------------------------------------------------------ bounds
\* write_str calls made on one buffer, constructors' calls included
MaxAppends == 2
\* fragments one format_c! invocation hands to write_str
MaxPieces == 2

\* --------------------------------------------------------------- constants
STRING_SIZE == 512

\* the zero byte, the C terminator
NUL == 0

\* "zyxvutabcdef9876", the 16-byte pattern of tests::gen_string
Pattern == <<122, 121, 120, 118, 117, 116, 97, 98, 99, 100, 101, 102, 57, 56, 55, 54>>

\* tests::gen_string(len): len / 16 copies of the pattern, then the
\* characters 'A' + i for i in 0 .. len % 16
gen_string(len) ==
    [i \in 1..len |->
        IF i <= 16 * (len \div 16)
        THEN Pattern[((i - 1) % 16) + 1]
        ELSE ((i - 1) - 16 * (len \div 16)) + 65]

\* lengths of the generated texts: the empty text, a short one, and the
\* lengths around STRING_SIZE
GenLens == {0, 1, STRING_SIZE - 2, STRING_SIZE - 1, STRING_SIZE, STRING_SIZE + 1}

\* valid UTF-8 texts that are not plain letters: "\0", "é", and a text of
\* STRING_SIZE bytes that ends in "\0"
OddTexts == {<<0>>, <<195, 169>>, gen_string(STRING_SIZE - 1) \o <<0>>}

\* the &str values handed to from / write_str
Fragments == {gen_string(n) : n \in GenLens} \cup OddTexts

\* what a byte of MaybeUninit::uninit().assume_init() may read as
UninitBytes == {0, 170}

\* ------------------------------------------------------- UTF-8 lossy decode
\* String::from_utf8_lossy as core::str::lossy::Utf8Chunks computes it.
IsCont(b) == b >= 128 /\ b <= 191

\* core::str::utf8_char_width
utf8_char_width(b) ==
    IF b < 128 THEN 1
    ELSE IF b >= 194 /\ b <= 223 THEN 2
    ELSE IF b >= 224 /\ b <= 239 THEN 3
    ELSE IF b >= 240 /\ b <= 244 THEN 4
    ELSE 0

\* safe_get: the byte at (1-based) position i, 0 past the end
safe_get(v, i) == IF i >= 1 /\ i <= Len(v) THEN v[i] ELSE 0

\* the (first, second) byte table of 3- and 4-byte sequences
SecondOk(first, second) ==
    \/ first = 224 /\ second >= 160 /\ second <= 191
    \/ first >= 225 /\ first <= 236 /\ IsCont(second)
    \/ first = 237 /\ second >= 128 /\ second <= 159
    \/ first >= 238 /\ first <= 239 /\ IsCont(second)
    \/ first = 240 /\ second >= 144 /\ second <= 191
    \/ first >= 241 /\ first <= 243 /\ IsCont(second)
    \/ first = 244 /\ second >= 128 /\ second <= 143

\* one step of the decoder at position i: the bytes it consumes and
\* whether they are a well-formed scalar value
Chunk(v, i) ==
    LET b == v[i]
        w == utf8_char_width(b)
    IN  IF w = 1 THEN [n |-> 1, ok |-> TRUE]
        ELSE IF w = 2 THEN
            IF IsCont(safe_get(v, i + 1)) THEN [n |-> 2, ok |-> TRUE]
            ELSE [n |-> 1, ok |-> FALSE]
        ELSE IF w = 3 THEN
            IF ~SecondOk(b, safe_get(v, i + 1)) THEN [n |-> 1, ok |-> FALSE]
            ELSE IF ~IsCont(safe_get(v, i + 2)) THEN [n |-> 2, ok |-> FALSE]
            ELSE [n |-> 3, ok |-> TRUE]
        ELSE IF w = 4 THEN
            IF ~SecondOk(b, safe_get(v, i + 1)) THEN [n |-> 1, ok |-> FALSE]
            ELSE IF ~IsCont(safe_get(v, i + 2)) THEN [n |-> 2, ok |-> FALSE]
            ELSE IF ~IsCont(safe_get(v, i + 3)) THEN [n |-> 3, ok |-> FALSE]
            ELSE [n |-> 4, ok |-> TRUE]
        ELSE [n |-> 1, ok |-> FALSE]

\* Position i is where the decoder starts a step.  A step consumes, after
\* its first byte, continuation bytes only, so a byte that is not a
\* continuation byte always starts one; a continuation byte starts one
\* (an ill-formed step of its own) unless the step of the nearest earlier
\* non-continuation byte reaches it.
ChunkStart(v, i) ==
    \/ ~IsCont(v[i])
    \/ ~ \E j \in 1..(i - 1) :
            /\ j >= i - 3
            /\ ~IsCont(v[j])
            /\ \A k \in (j + 1)..(i - 1) : IsCont(v[k])
            /\ i < j + Chunk(v, j).n

\* Utf8Chunks finds no invalid part
Utf8Valid(v) ==
    \A i \in 1..Len(v) : ChunkStart(v, i) => Chunk(v, i).ok

\* U+FFFD REPLACEMENT CHARACTER
REPLACEMENT == <<239, 191, 189>>

\* what the decoder pushes for position i
Piece(v, i) ==
    IF ~ChunkStart(v, i) THEN <<>>
    ELSE IF Chunk(v, i).ok THEN SubSeq(v, i, i + Chunk(v, i).n - 1)
    ELSE REPLACEMENT

RECURSIVE Repaired(_, _, _)
Repaired(v, lo, hi) ==
    IF lo > hi THEN <<>>
    ELSE IF lo = hi THEN Piece(v, lo)
    ELSE LET mid == (lo + hi) \div 2
         IN  Repaired(v, lo, mid) \o Repaired(v, mid + 1, hi)

\* Cow::Borrowed(v) when v is valid, else the owned repaired text
from_utf8_lossy(v) ==
    IF Utf8Valid(v) THEN v ELSE Repaired(v, 1, Len(v))

\* ------------------------------------------------------------ CFixedString
\* enum CFixedString { Local { s: [c_char; STRING_SIZE], len }, Heap { s: CString, len } }
Local(s, len) == [kind |-> "Local", s |-> s, len |-> len]

Heap(s, len) == [kind |-> "Heap", s |-> s, len |-> len]

\* the place of a buffer that does not exist (not constructed yet, or dropped)
NoBuffer == [kind |-> "None", s |-> <<>>, len |-> 0]

\* CFixedString::new(): the array is left uninitialised, len is 0
new(u) == Local([i \in 0..(STRING_SIZE - 1) |-> u], 0)

\* is_allocated()
is_allocated(self) == self.kind # "Local"

\* as_str(): slice::from_raw_parts(s.as_ptr(), len), for both variants
as_str(self) ==
    IF self.kind = "Local"
    THEN [i \in 1..self.len |-> self.s[i - 1]]
    ELSE [i \in 1..self.len |-> self.s.bytes[i]]

\* deref with the slice cut at len instead of len + 1
deref_NoTerminator(self) ==
    IF self.kind = "Local"
    THEN [i \in 1..self.len |-> self.s[i - 1]]
    ELSE self.s.bytes

\* Deref::deref: the CStr, as its bytes with the terminator;
\* Local takes len + 1 bytes of the array, Heap takes the CString
deref(self) ==
    IF self.kind = "Local"
    THEN [i \in 1..(self.len + 1) |-> self.s[i - 1]]
    ELSE self.s.bytes

\* CStr::to_bytes: the bytes of the CStr without its last one
to_bytes(cstr) == SubSeq(cstr, 1, Len(cstr) - 1)

\* to_string(): String::from_utf8_lossy(self.to_bytes())
to_string(self) == from_utf8_lossy(to_bytes(deref(self)))

\* From<CFixedString> for String: from_utf8_lossy(s.to_bytes()).into_owned()
StringFrom(self) == from_utf8_lossy(to_bytes(deref(self)))

\* a pointer value: into the inline array, into a heap block, or none yet
NullPtr == [region |-> "none", addr |-> 0]

\* as_ptr(): s.as_ptr() of the array or of the CString
as_ptr(self) ==
    IF self.kind = "Local"
    THEN [region |-> "inline", addr |-> 0]
    ELSE [region |-> "heap", addr |-> self.s.addr]

\* the byte a C reader finds at offset i from as_ptr()
ExportedByte(self, i) ==
    IF self.kind = "Local" THEN self.s[i] ELSE self.s.bytes[i + 1]

\* the heap block a buffer owns, if any
Owned(self) == IF self.kind = "Heap" THEN {self.s.addr} ELSE {}

\* CString::new(heapstring): Err(NulError) when a byte is zero, else the
\* bytes with a terminator, in the block the String was allocated in
HasNul(bytes) == \E i \in 1..Len(bytes) : bytes[i] = NUL

CStringNew(bytes, addr) == [addr |-> addr, bytes |-> bytes \o <<NUL>>]

\* the guard with <= for <
FitsLocal_Le(len) == len <= STRING_SIZE

\* the guard with the terminator counted twice
FitsLocal_Minus1(len) == len < STRING_SIZE - 1

\* the guard of the first match arm: len if len < STRING_SIZE
FitsLocal(len) == len < STRING_SIZE

\* the Local arm with the terminator put at s.len() instead of len
LocalBranch_TermAtFragLen(self, s, cur_len, len) ==
    Local([i \in 0..(STRING_SIZE - 1) |->
              IF i = Len(s) THEN NUL
              ELSE IF i >= cur_len /\ i < cur_len + Len(s) THEN s[(i - cur_len) + 1]
              ELSE self.s[i]],
          len)

\* the Local arm: ptr::copy(s, ptr.add(cur_len), s.len()); *ptr.add(len) = 0;
\* *lslen = len
LocalBranch(self, s, cur_len, len) ==
    Local([i \in 0..(STRING_SIZE - 1) |->
              IF i = len THEN NUL
              ELSE IF i >= cur_len /\ i < cur_len + Len(s) THEN s[(i - cur_len) + 1]
              ELSE self.s[i]],
          len)

\* the second arm without heapstring.write_str(self.as_str())
HeapString_Delta(self, s) == s

\* the text the second arm collects: heapstring.write_str(self.as_str());
\* heapstring.write_str(s)
HeapString(self, s) == as_str(self) \o s

\* write_str matching on s.len() alone instead of cur_len + s.len()
write_str_FragLen(self, s, addr) ==
    LET cur_len == Len(as_str(self))
        len == cur_len + Len(s)
    IN  IF FitsLocal(Len(s))
        THEN IF self.kind = "Local"
             THEN [self |-> LocalBranch(self, s, cur_len, len), res |-> "Ok", alloc |-> FALSE]
             ELSE [self |-> self, res |-> "Panic", alloc |-> FALSE]
        ELSE LET heapstring == HeapString(self, s)
             IN  IF HasNul(heapstring)
                 THEN [self |-> self, res |-> "Panic", alloc |-> TRUE]
                 ELSE [self |-> Heap(CStringNew(heapstring, addr), len),
                       res |-> "Ok", alloc |-> TRUE]

\* write_str whose first arm, met with a Heap buffer and a short fragment,
\* starts the inline array over instead of being unreachable
write_str_Restart(self, s, addr) ==
    LET cur_len == Len(as_str(self))
        len == cur_len + Len(s)
    IN  IF FitsLocal(len)
        THEN IF self.kind = "Local"
             THEN [self |-> LocalBranch(self, s, cur_len, len), res |-> "Ok", alloc |-> FALSE]
             ELSE [self |-> self, res |-> "Panic", alloc |-> FALSE]
        ELSE IF self.kind = "Heap" /\ FitsLocal(Len(s))
        THEN [self |-> LocalBranch(new(NUL), s, 0, Len(s)), res |-> "Ok", alloc |-> FALSE]
        ELSE LET heapstring == HeapString(self, s)
             IN  IF HasNul(heapstring)
                 THEN [self |-> self, res |-> "Panic", alloc |-> TRUE]
                 ELSE [self |-> Heap(CStringNew(heapstring, addr), len),
                       res |-> "Ok", alloc |-> TRUE]

\* write_str building the CString without the check for zero bytes
\* (CString::from_vec_unchecked for CString::new)
write_str_Unchecked(self, s, addr) ==
    LET cur_len == Len(as_str(self))
        len == cur_len + Len(s)
    IN  IF FitsLocal(len)
        THEN IF self.kind = "Local"
             THEN [self |-> LocalBranch(self, s, cur_len, len), res |-> "Ok", alloc |-> FALSE]
             ELSE [self |-> self, res |-> "Panic", alloc |-> FALSE]
        ELSE [self |-> Heap(CStringNew(HeapString(self, s), addr), len),
              res |-> "Ok", alloc |-> TRUE]

\* write_str whose heap arm stores s.len() for len
write_str_HeapFragLen(self, s, addr) ==
    LET cur_len == Len(as_str(self))
        len == cur_len + Len(s)
    IN  IF FitsLocal(len)
        THEN IF self.kind = "Local"
             THEN [self |-> LocalBranch(self, s, cur_len, len), res |-> "Ok", alloc |-> FALSE]
             ELSE [self |-> self, res |-> "Panic", alloc |-> FALSE]
        ELSE LET heapstring == HeapString(self, s)
             IN  IF HasNul(heapstring)
                 THEN [self |-> self, res |-> "Panic", alloc |-> TRUE]
                 ELSE [self |-> Heap(CStringNew(heapstring, addr), Len(s)),
                       res |-> "Ok", alloc |-> TRUE]

\* write_str(&mut self, s): the buffer afterwards, how the call ended, and
\* whether String::with_capacity ran; addr is the block the allocator hands out
write_str(self, s, addr) ==
    LET cur_len == Len(as_str(self))
        len == cur_len + Len(s)
    IN  IF FitsLocal(len)
        THEN IF self.kind = "Local"
             THEN [self |-> LocalBranch(self, s, cur_len, len), res |-> "Ok", alloc |-> FALSE]
             ELSE [self |-> self, res |-> "Panic", alloc |-> FALSE]
        ELSE LET heapstring == HeapString(self, s)
             IN  IF HasNul(heapstring)
                 THEN [self |-> self, res |-> "Panic", alloc |-> TRUE]
                 ELSE [self |-> Heap(CStringNew(heapstring, addr), len),
                       res |-> "Ok", alloc |-> TRUE]

\* ------------------------------------------------------------------- state
VARIABLES
    pc,         \* "start", "live", "unwound" (a constructor panicked), "dropped"
    self,       \* the CFixedString
    result,     \* how the last write_str ended: "None", "Ok", "Panic"
    ptr,        \* the pointer the last as_ptr() returned
    ret,        \* what the last call returned, when it was a read accessor
    live,       \* addresses of the heap blocks not yet freed
    allocs,     \* heap allocations performed so far
    frees,      \* heap blocks released so far
    hiWrite,    \* history: the highest array index the Local arm wrote, -1 if none
    appended,   \* history: the fragments of the completed appends, in order
    maxLen,     \* history: the largest running total a write_str call computed
    calls,      \* history: write_str calls made
    ctor        \* history: the constructor used

vars == <<pc, self, result, ptr, ret, live, allocs, frees, hiWrite, appended,
          maxLen, calls, ctor>>

Max(a, b) == IF a >= b THEN a ELSE b

\* no accessor value: the last call was a constructor, an append or a drop
NoRet == [op |-> "none", val |-> <<>>]

\* the read accessors that return a value; as_ptr's pointer is kept in ptr
Accessors == {"is_allocated", "to_string", "as_str"}

\* an accessor that writes the terminator into the array before it reads
SharedBorrow_Terminates(self1) ==
    IF self1.kind = "Local"
    THEN [self1 EXCEPT !.s = [i \in 0..(STRING_SIZE - 1) |->
                                  IF i = self1.len THEN NUL ELSE self1.s[i]]]
    ELSE self1

\* the buffer after a call that takes &self: as_ptr, is_allocated,
\* to_string and as_str only match on *self and read
SharedBorrow(self1) == self1

\* the part of the state a write_str call works on
Machine == [self |-> self, result |-> result, live |-> live, allocs |-> allocs,
            frees |-> frees, hiWrite |-> hiWrite,
            appended |-> appended, maxLen |-> maxLen, calls |-> calls]

\* Step with *self overwritten without dropping the old value
Step_Leak(m, frag) ==
    LET r == write_str(m.self, frag, m.allocs + 1)
    IN  [self     |-> r.self,
         result   |-> r.res,
         live     |-> IF r.alloc /\ r.res = "Ok"
                      THEN m.live \cup {m.allocs + 1}
                      ELSE m.live,
         allocs   |-> IF r.alloc THEN m.allocs + 1 ELSE m.allocs,
         frees    |-> IF r.alloc /\ r.res # "Ok" THEN m.frees + 1 ELSE m.frees,
         hiWrite  |-> IF r.res = "Ok" /\ ~r.alloc
                      THEN Max(m.hiWrite, r.self.len)
                      ELSE m.hiWrite,
         appended |-> IF r.res = "Ok" THEN m.appended \o frag ELSE m.appended,
         maxLen   |-> Max(m.maxLen, Len(m.appended) + Len(frag)),
         calls    |-> m.calls + 1]

\* one write_str call on machine m, with the heap's bookkeeping: the heap
\* arm allocates one block; on success the assignment *self = Heap {..}
\* drops the old value, on a panic the unwinding drops the new String.
\* The Local arm writes the fragment and, last and highest, the terminator
\* at index len.
Step(m, frag) ==
    LET r == write_str(m.self, frag, m.allocs + 1)
    IN  [self     |-> r.self,
         result   |-> r.res,
         live     |-> IF r.alloc /\ r.res = "Ok"
                      THEN (m.live \ Owned(m.self)) \cup {m.allocs + 1}
                      ELSE m.live,
         allocs   |-> IF r.alloc THEN m.allocs + 1 ELSE m.allocs,
         frees    |-> IF r.alloc /\ r.res = "Ok"
                      THEN m.frees + Cardinality(Owned(m.self))
                      ELSE IF r.alloc THEN m.frees + 1
                      ELSE m.frees,
         hiWrite  |-> IF r.res = "Ok" /\ ~r.alloc
                      THEN Max(m.hiWrite, r.self.len)
                      ELSE m.hiWrite,
         appended |-> IF r.res = "Ok" THEN m.appended \o frag ELSE m.appended,
         maxLen   |-> Max(m.maxLen, Len(m.appended) + Len(frag)),
         calls    |-> m.calls + 1]

\* fmt::write: the pieces go to write_str one by one; a panic ends it
RECURSIVE Feed(_, _)
Feed(m, pieces) ==
    IF pieces = <<>> \/ m.result = "Panic" THEN m
    ELSE Feed(Step(m, Head(pieces)), Tail(pieces))

\* a constructor or an append leaves machine m; a panic inside a
\* constructor unwinds through it and drops the buffer under construction
Install(m, constructing) ==
    /\ result' = m.result
    /\ allocs' = m.allocs
    /\ hiWrite' = m.hiWrite
    /\ appended' = m.appended
    /\ maxLen' = m.maxLen
    /\ calls' = m.calls
    /\ ret' = NoRet
    /\ IF constructing /\ m.result = "Panic"
       THEN /\ pc' = "unwound"
            /\ self' = NoBuffer
            /\ live' = m.live \ Owned(m.self)
            /\ frees' = m.frees + Cardinality(Owned(m.self))
       ELSE /\ pc' = "live"
            /\ self' = m.self
            /\ live' = m.live
            /\ frees' = m.frees

Init ==
    /\ pc = "start"
    /\ self = NoBuffer
    /\ result = "None"
    /\ ptr = NullPtr
    /\ ret = NoRet
    /\ live = {}
    /\ allocs = 0
    /\ frees = 0
    /\ hiWrite = -1
    /\ appended = <<>>
    /\ maxLen = 0
    /\ calls = 0
    /\ ctor = "none"

\* let s = CFixedString::new();
New ==
    /\ pc = "start"
    /\ \E u \in UninitBytes :
          Install([Machine EXCEPT !.self = new(u)], TRUE)
    /\ ctor' = "new"
    /\ UNCHANGED ptr

\* CFixedString::from(text) and from_str(text):
\* new(), then write_str(text).unwrap()
FromStr ==
    /\ pc = "start"
    /\ \E u \in UninitBytes, text \in Fragments :
          Install(Step([Machine EXCEPT !.self = new(u)], text), TRUE)
    /\ ctor' = "from"
    /\ UNCHANGED ptr

\* format_c!(fmt, args): new(), then write!(&mut fixed, ..).unwrap()
PieceLists == UNION {[1..n -> Fragments] : n \in 1..MaxPieces}

FormatC ==
    /\ pc = "start"
    /\ \E u \in UninitBytes, pieces \in PieceLists :
          Install(Feed([Machine EXCEPT !.self = new(u)], pieces), TRUE)
    /\ ctor' = "format_c"
    /\ UNCHANGED ptr

\* string.write_str(frag) on a buffer that exists
WriteStr ==
    /\ pc = "live"
    /\ calls < MaxAppends
    /\ \E frag \in Fragments : Install(Step(Machine, frag), FALSE)
    /\ UNCHANGED <<ptr, ctor>>

\* what a read accessor leaves alone besides the buffer
Frame == UNCHANGED <<pc, result, live, allocs, frees, hiWrite, appended,
                     maxLen, calls, ctor>>

\* let p = string.as_ptr();
AsPtr ==
    /\ pc = "live"
    /\ ptr' = as_ptr(self)
    /\ self' = SharedBorrow(self)
    /\ Frame
    /\ UNCHANGED ret

\* string.is_allocated()
IsAllocated ==
    /\ pc = "live"
    /\ ret' = [op |-> "is_allocated", val |-> is_allocated(self)]
    /\ self' = SharedBorrow(self)
    /\ Frame
    /\ UNCHANGED ptr

\* string.to_string()
ToString ==
    /\ pc = "live"
    /\ ret' = [op |-> "to_string", val |-> to_string(self)]
    /\ self' = SharedBorrow(self)
    /\ Frame
    /\ UNCHANGED ptr

\* unsafe { string.as_str() }
AsStr ==
    /\ pc = "live"
    /\ ret' = [op |-> "as_str", val |-> as_str(self)]
    /\ self' = SharedBorrow(self)
    /\ Frame
    /\ UNCHANGED ptr

\* the buffer goes out of scope: a Heap buffer's CString is freed
Drop ==
    /\ pc = "live"
    /\ pc' = "dropped"
    /\ self' = NoBuffer
    /\ ret' = NoRet
    /\ live' = live \ Owned(self)
    /\ frees' = frees + Cardinality(Owned(self))
    /\ UNCHANGED <<result, ptr, allocs, hiWrite, appended, maxLen, calls, ctor>>

\* The constructors, the append, the pointer export and the drop.
Next == New \/ FromStr \/ FormatC \/ WriteStr \/ AsPtr \/ Drop

Spec == Init /\ [][Next]_vars

\* The same with the value-returning read accessors.  They change nothing
\* but ret, which no other action reads, so Spec leaves them out.
NextRead == Next \/ IsAllocated \/ ToString \/ AsStr

SpecRead == Init /\ [][NextRead]_vars

\* ------------------------------------------------------------------ claims
\* the buffer is the one from(text) / from_str(text) just returned
AfterFrom == pc = "live" /\ ctor = "from" /\ calls = 1

\* C1: after any sequence of appends the buffer is Promoted if and only
\* if the cumulative appended length is at least STRING_SIZE, and Inline
\* if and only if it is less.
C1_PromotedIffLong ==
    pc = "live" => (is_allocated(self) <=> Len(appended) >= STRING_SIZE)

\* several appends that reach exactly STRING_SIZE together
C1_Witness ==
    /\ pc = "live"
    /\ calls >= 2
    /\ result = "Ok"
    /\ Len(appended) = STRING_SIZE
    /\ self.kind = "Heap"
    /\ allocs = 1

\* C2 as stated: from(text) with a text of length L is not promoted if
\* L < STRING_SIZE - 1 and promoted if L >= STRING_SIZE - 1.
C2_Original ==
    AfterFrom =>
        /\ Len(appended) < STRING_SIZE - 1 => ~is_allocated(self)
        /\ Len(appended) >= STRING_SIZE - 1 => is_allocated(self)

\* C2 amended: from(text) with a text of length L, when it returns, is
\* not promoted if L < STRING_SIZE and promoted if L >= STRING_SIZE.
C2_Amended ==
    AfterFrom =>
        /\ Len(appended) < STRING_SIZE => ~is_allocated(self)
        /\ Len(appended) >= STRING_SIZE => is_allocated(self)

\* from(text) with a text of STRING_SIZE - 1 bytes, still inline
C2_Witness ==
    /\ AfterFrom
    /\ Len(appended) = STRING_SIZE - 1
    /\ self.kind = "Local"

\* C3: in every reachable state, a buffer fresh from new() included, the
\* byte at offset len from as_ptr() is zero, for both variants.
C3_NulTerminated ==
    pc = "live" => ExportedByte(self, self.len) = NUL

\* C4: every append completes without panicking or returning an error,
\* whatever the buffer's state and the fragment, U+0000 included.
C4_AppendTotal == result # "Panic"

\* C5: in every reachable state no byte at an offset in [0, len) from
\* as_ptr() is zero.
C5_NoEmbeddedNul ==
    pc = "live" => \A i \in 0..(self.len - 1) : ExportedByte(self, i) # NUL

\* C6: the stored content, as to_string() returns it, is the concatenation
\* of the appended fragments in order, and len is the sum of their lengths,
\* wherever the promotion happened.
C6_Concatenation ==
    pc = "live" =>
        /\ to_string(self) = appended
        /\ self.len = Len(appended)

\* several appends, promoted before the last one
C6_Witness ==
    /\ pc = "live"
    /\ calls >= 2
    /\ result = "Ok"
    /\ self.kind = "Heap"
    /\ allocs >= 2
    /\ Len(appended) > STRING_SIZE + 1

\* C7: to_string() of from_str(T) is T and String::from(from_str(T)) is T,
\* promoted or not.
C7_RoundTrip ==
    AfterFrom =>
        /\ to_string(self) = appended
        /\ StringFrom(self) = appended

\* from_str of a text longer than the inline array
C7_Witness ==
    /\ AfterFrom
    /\ is_allocated(self)
    /\ Len(appended) = STRING_SIZE + 1

\* C8: once is_allocated() is true it stays true under every further
\* append, empty ones included.
C8_Irreversible ==
    [][(pc = "live" /\ is_allocated(self) /\ pc' = "live") => is_allocated(self')]_vars

\* a buffer promoted at exactly STRING_SIZE that took an empty append since
C8_Witness ==
    /\ pc = "live"
    /\ self.kind = "Heap"
    /\ result = "Ok"
    /\ allocs >= 2
    /\ Len(appended) = STRING_SIZE

\* C9: no reachable state has an exported pointer that refers to storage
\* a later append has released or relocated.
C9_PointerNeverStale ==
    (pc = "live" /\ ptr # NullPtr) =>
        /\ ptr = as_ptr(self)
        /\ ptr.region = "heap" => ptr.addr \in live

\* C10: new() and the appends allocate nothing as long as the running
\* total stays below STRING_SIZE at every step, format_c! included.
C10_NoAllocationBelowC == maxLen < STRING_SIZE => allocs = 0

\* format_c! of several pieces that fill the inline array to the last byte
C10_Witness ==
    /\ pc = "live"
    /\ ctor = "format_c"
    /\ calls >= 2
    /\ Len(appended) = STRING_SIZE - 1
    /\ allocs = 0

\* C11: appending the empty fragment to a buffer in any reachable state
\* succeeds, leaves bytes [0, len) and len unchanged, and keeps the variant.
C11_EmptyAppend ==
    pc = "live" =>
        LET r == write_str(self, <<>>, allocs + 1)
        IN  /\ r.res = "Ok"
            /\ r.self.kind = self.kind
            /\ r.self.len = self.len
            /\ as_str(r.self) = as_str(self)

\* from and one write_str, one of the two with the empty text, the other
\* with STRING_SIZE - 1 bytes: the array is full and the buffer still inline
C11_Witness ==
    /\ pc = "live"
    /\ ctor = "from"
    /\ calls = 2
    /\ result = "Ok"
    /\ appended = gen_string(STRING_SIZE - 1)
    /\ self.kind = "Local"
    /\ self.len = STRING_SIZE - 1

\* C12: appending the fragments one by one, as format_c! / write! do, and
\* appending their concatenation in one write_str to a fresh buffer give the
\* same content, the same len and the same is_allocated().
C12_RoutesAgree ==
    pc = "live" =>
        \A u \in UninitBytes :
            LET r == write_str(new(u), appended, allocs + 1)
            IN  /\ r.res = "Ok"
                /\ to_string(r.self) = to_string(self)
                /\ r.self.len = self.len
                /\ is_allocated(r.self) = is_allocated(self)

\* format_c! of several pieces, promoted by the last one
C12_Witness ==
    /\ pc = "live"
    /\ ctor = "format_c"
    /\ calls >= 2
    /\ self.kind = "Heap"
    /\ allocs = 1
    /\ Len(appended) > STRING_SIZE

\* C14 as stated: STRING_SIZE is the longest content the inline array
\* holds: content of exactly STRING_SIZE bytes is still Inline, and a
\* Promoted buffer's content is longer than STRING_SIZE.
C14_Original ==
    pc = "live" =>
        /\ Len(appended) = STRING_SIZE => self.kind = "Local"
        /\ is_allocated(self) => Len(appended) > STRING_SIZE

\* C14 amended: STRING_SIZE - 1 is the longest content the inline array
\* holds: content of exactly STRING_SIZE bytes is Promoted, and promotion
\* is forced as soon as the content length reaches STRING_SIZE.
C14_Amended ==
    pc = "live" =>
        /\ self.kind = "Local" => Len(as_str(self)) <= STRING_SIZE - 1
        /\ Len(appended) = STRING_SIZE => self.kind = "Heap"
        /\ Len(appended) = STRING_SIZE - 1 => self.kind = "Local"

\* new() and appends that fill the inline array to its last content byte
C14_Witness ==
    /\ pc = "live"
    /\ ctor = "new"
    /\ result = "Ok"
    /\ self.kind = "Local"
    /\ Len(as_str(self)) = STRING_SIZE - 1

\* C16: in every Heap state len is the number of content bytes of the
\* CString, the heap buffer holds len + 1 bytes, and its only zero byte
\* is the last one.
C16_HeapStorage ==
    (pc = "live" /\ self.kind = "Heap") =>
        /\ Len(self.s.bytes) = self.len + 1
        /\ self.s.bytes[self.len + 1] = NUL
        /\ \A i \in 1..self.len : self.s.bytes[i] # NUL

\* a Heap buffer that took a second long append after the promoting one
C16_Witness ==
    /\ pc = "live"
    /\ self.kind = "Heap"
    /\ result = "Ok"
    /\ allocs >= 2
    /\ self.len >= 2 * STRING_SIZE

\* C17: a Heap buffer has len >= STRING_SIZE, so for every fragment the
\* guard len < STRING_SIZE is false and the unreachable!() arm is not run.
C17_UnreachableArm ==
    (pc = "live" /\ self.kind = "Heap") =>
        /\ self.len >= STRING_SIZE
        /\ \A frag \in Fragments : ~FitsLocal(Len(as_str(self)) + Len(frag))

\* a Heap buffer one byte past STRING_SIZE after an append to it
C17_Witness ==
    /\ pc = "live"
    /\ self.kind = "Heap"
    /\ result = "Ok"
    /\ allocs >= 2
    /\ self.len = STRING_SIZE + 1

\* C13: as_ptr(), is_allocated(), to_string() and as_str() leave the
\* variant, len and every stored byte unchanged, and a call repeated with
\* no append in between returns the same value.
C13_ReadOnly ==
    [][(pc = "live" /\ (ret'.op \in Accessors \/ ptr' # ptr)) =>
          /\ pc' = "live"
          /\ self' = self
          /\ live' = live
          /\ ptr' # ptr => ptr' = as_ptr(self)
          /\ ret.op = ret'.op => ret'.val = ret.val]_vars

\* to_string() called on a Promoted buffer
C13_Witness ==
    /\ pc = "live"
    /\ ret.op = "to_string"
    /\ ret.val = appended
    /\ self.kind = "Heap"

\* C15: after every append the buffer owns exactly one live heap block if
\* it is Promoted and none if it is Inline; every block allocated is either
\* that one or was released once; after the drop no block is live.
C15_HeapOwnership ==
    /\ allocs = frees + Cardinality(live)
    /\ pc = "live" =>
          /\ live = Owned(self)
          /\ Cardinality(live) = IF self.kind = "Heap" THEN 1 ELSE 0
    /\ pc \in {"start", "unwound", "dropped"} => live = {}

\* a buffer dropped after an append to it when it was already Promoted
C15_Witness ==
    /\ pc = "dropped"
    /\ result = "Ok"
    /\ allocs >= 2
    /\ frees = allocs

\* C18: every index the Local arm writes lies in [0, STRING_SIZE - 1], a
\* Local buffer has len <= STRING_SIZE - 1, and the len + 1 bytes Deref
\* exposes lie inside the array.
C18_InBounds ==
    /\ hiWrite <= STRING_SIZE - 1
    /\ (pc = "live" /\ self.kind = "Local") =>
          /\ self.len <= STRING_SIZE - 1
          /\ Len(deref(self)) <= STRING_SIZE

\* the Local arm wrote the terminator into the last element of the array
C18_Witness ==
    /\ pc = "live"
    /\ self.kind = "Local"
    /\ hiWrite = STRING_SIZE - 1
    /\ self.len = STRING_SIZE - 1

====
